---- MODULE Spec2Model ----
(***************************************************************************)
(* The JavaScript executor service of gemini-ai-agent: the POST / handler  *)
(* and evalAndCaptureOutput, which redirects the process-wide console.log  *)
(* and console.error into per-call arrays, filters the code text, evals it *)
(* and awaits the result; and the agent's run_javascript_code_tool handler *)
(* that calls it.  The agent service: the POST /generate handler around    *)
(* agent.invoke, the ReAct loop of createReactAgent with its MemorySaver   *)
(* checkpoints per thread_id, and the weather tool.  The GET /health probe  *)
(* of both services.  The chat client App.jsx: sendMessage and the state   *)
(* of its component, one per browser session.                              *)
(*                                                                         *)
(* Node runs one callback at a time.  An action of this model is one such  *)
(* run: from the start of a handler, or from the settling of the promise   *)
(* the code awaits, up to the next await of a pending promise or the end.  *)
(* The continuation of an await of a settled value is a microtask and runs *)
(* before any other request is dispatched, so it belongs to the same run.  *)
(*                                                                         *)
(* Text is a sequence of tokens.  A program is a sequence of statements;   *)
(* its code string is Text(program), and the filter reads that string.     *)
(* Programs write only through console.log and console.error, await, and   *)
(* throw: they leave the bindings of evalAndCaptureOutput and the console  *)
(* object itself alone, and they start no timers.                          *)
(***************************************************************************)
EXTENDS Integers, Sequences, FiniteSets, TLC

\* Number of requests to POST / in one behaviour.
MaxInv == 2

Inv == 1..MaxInv

\* console.log / console.error of the host process, before any redirection.
\* A value i in Inv stands for the arrow function installed by invocation i.
Host == 0

VARIABLES
  consoleLog,     \* the function console.log is bound to: Host or i
  consoleError,   \* the function console.error is bound to: Host or i
  pc,             \* per invocation: "idle", "awaiting", "returned", "rejected", "invalid",
                  \*   or, when the call got no answer of the executor, "unreached", "garbled"
  code,           \* per invocation: the program submitted
  ip,             \* per invocation: index of the await it is suspended at
  oldLog,         \* per invocation: its local oldLog
  oldError,       \* per invocation: its local oldError
  output,         \* per invocation: its local array output
  errorOutput,    \* per invocation: its local array errorOutput
  ret,            \* per invocation: how evalAndCaptureOutput's promise settled
  resp,           \* per invocation: the HTTP response sent
  tool,           \* per invocation: how the tool handler that made the request ended
  evalReached,    \* history: eval(code) was called by invocation i
  writes,         \* history: the console.log calls made by i's code, in order
  ewrites,        \* history: the console.error calls made by i's code, in order
  overlapped,     \* history: another invocation was in flight during i's
  query,          \* the query the weather tool was last called with
  forecast,       \* what the weather tool returned for it
  gpc,            \* per chat request: "idle", "model", "tools", "done"
  gbody,          \* per chat request: the body of the request
  gstate,         \* per chat request: the messages of its run of the graph
  gsteps,         \* per chat request: the supersteps its run has made
  gcall,          \* per chat request: the tool call its run is waiting for
  gresp,          \* per chat request: the response last sent
  gsent,          \* per chat request: the number of responses sent
  store,          \* per thread: the messages of the latest checkpoint
  invoked,        \* history: agent.invoke was called for the request
  gseen,          \* history: the messages first given to the model
  gprior,         \* history: the requests that had ended when this one began
  gended,         \* history: how the run ended: "", "final", "failed", "limit"
  hresp,          \* per service: the response to its last GET /health
  probes,         \* per service: the GET /health requests answered
  inputValue,     \* per client session: the text of the textarea
  isLoading,      \* per client session: a request is awaited
  cmessages,      \* per client session: its state messages, the messages shown
  fetching,       \* per client session: the chat request awaited, 0 for none
  owner,          \* history: the session that sent the chat request, 0 for none
  outcome         \* history: how the fetch ended: "", "response", "failed"

execVars == <<consoleLog, consoleError, pc, code, ip, oldLog, oldError, output,
              errorOutput, ret, resp, tool, evalReached, writes, ewrites, overlapped>>

weatherVars == <<query, forecast>>

agentVars == <<gpc, gbody, gstate, gsteps, gcall, gresp, gsent, store, invoked,
               gseen, gprior, gended>>

healthVars == <<hresp, probes>>

clientVars == <<inputValue, isLoading, cmessages, fetching, owner, outcome>>

vars == <<execVars, weatherVars, agentVars, healthVars, clientVars>>

----------------------------------------------------------------------------
(* Text *)

SP == " "
NL == "\n"

\* String.prototype.includes
Includes(text, pat) ==
  \E k \in 1..(Len(text) - Len(pat) + 1) : SubSeq(text, k, k + Len(pat) - 1) = pat

\* JavaScript values held by the arrays and thrown by code.
Str(s)    == [t |-> "string", s |-> s]
Undefined == [t |-> "undefined", s |-> <<>>]

\* Array.prototype.join over strings: elements separated by sep.
RECURSIVE JoinWith(_, _)
JoinWith(ss, sep) ==
  IF ss = <<>> THEN <<>>
  ELSE IF Len(ss) = 1 THEN ss[1]
  ELSE ss[1] \o <<sep>> \o JoinWith(Tail(ss), sep)

\* Array.prototype.join over values: undefined (and null) join as ''.
ValueText(v) == IF v.t = "string" THEN v.s ELSE <<>>

RECURSIVE JoinValues(_, _)
JoinValues(vs, sep) ==
  IF vs = <<>> THEN <<>>
  ELSE IF Len(vs) = 1 THEN ValueText(vs[1])
  ELSE ValueText(vs[1]) \o <<sep>> \o JoinValues(Tail(vs), sep)

\* Number.prototype.toString of a natural number: its decimal digits.
Digit(d) == <<"0", "1", "2", "3", "4", "5", "6", "7", "8", "9">>[d + 1]

RECURSIVE NumberText(_)
NumberText(n) ==
  IF n < 10 THEN <<Digit(n)>> ELSE NumberText(n \div 10) \o <<Digit(n % 10)>>

----------------------------------------------------------------------------
(* Programs and their code strings *)

Log(args)   == [op |-> "log",   args |-> args, val |-> <<>>]
Err(args)   == [op |-> "error", args |-> args, val |-> <<>>]
Await       == [op |-> "await", args |-> <<>>, val |-> <<>>]
Hang        == [op |-> "hang",  args |-> <<>>, val |-> <<>>]
Throw(v)    == [op |-> "throw", args |-> <<>>, val |-> v]
Call(f)     == [op |-> f,       args |-> <<>>, val |-> <<>>]
\* console.log(a*b)
LogMul(a, b) == [op |-> "logmul", args |-> <<>>, val |-> <<a, b>>]

\* Values a program throws.
ErrorObj(m) == <<"Error", m>>
StringVal   == <<"string", <<"boom">>>>
NullVal     == <<"null", <<>>>>

Quoted(s) == <<"'">> \o s \o <<"'">>

RECURSIVE ArgList(_)
ArgList(args) ==
  IF args = <<>> THEN <<>>
  ELSE IF Len(args) = 1 THEN Quoted(args[1])
  ELSE Quoted(args[1]) \o <<",">> \o ArgList(Tail(args))

StmtText(s) ==
  CASE s.op = "log"       -> <<"console", ".", "log", "(">> \o ArgList(s.args) \o <<")">>
    [] s.op = "error"     -> <<"console", ".", "error", "(">> \o ArgList(s.args) \o <<")">>
    [] s.op = "logmul"    -> <<"console", ".", "log", "(">> \o NumberText(s.val[1])
                               \o <<"*">> \o NumberText(s.val[2]) \o <<")">>
    [] s.op = "await"     -> <<"await", SP, "pending">>
    [] s.op = "hang"      -> <<"await", SP, "never">>
    [] s.op = "throw"     ->
         CASE s.val[1] = "Error"  -> <<"throw", SP, "new", SP, "Error", "(">>
                                       \o Quoted(s.val[2]) \o <<")">>
           [] s.val[1] = "string" -> <<"throw", SP>> \o Quoted(s.val[2])
           [] OTHER               -> <<"throw", SP, "null">>
    [] s.op = "exit"      -> <<"process", ".", "exit", "(", "0", ")">>
    [] s.op = "require"   -> <<"require", "(">> \o Quoted(<<"fs">>) \o <<")">>
    [] s.op = "import"    -> <<"import", SP>> \o Quoted(<<"fs">>)
    [] s.op = "dynimport" -> <<"import", "(">> \o Quoted(<<"fs">>) \o <<")">>
    [] OTHER              -> <<"eval", "(">> \o Quoted(<<"1">>) \o <<")">>

RECURSIVE StmtsText(_)
StmtsText(prog) ==
  IF prog = <<>> THEN <<>>
  ELSE IF Len(prog) = 1 THEN StmtText(prog[1])
  ELSE StmtText(prog[1]) \o <<";">> \o StmtsText(Tail(prog))

IsAsync(prog) == \E k \in 1..Len(prog) : prog[k].op \in {"await", "hang"}

\* The code string of a program.  await is legal only inside an async
\* function, so a program that awaits is an async arrow function, called.
Text(prog) ==
  IF IsAsync(prog)
  THEN <<"(", "async", "(", ")", "=>", "{">> \o StmtsText(prog) \o <<"}", ")", "(", ")">>
  ELSE StmtsText(prog)

A == <<"a">>
B == <<"b">>
M == <<"m">>

Programs ==
  { <<>>,
    << Log(<<A, B>>), Log(<<B>>) >>,
    << LogMul(15, 37) >>,
    << Log(<<A>>), Err(<<B>>) >>,
    << Log(<<A>>), Err(<<B>>), Throw(ErrorObj(M)) >>,
    << Throw(ErrorObj(<<>>)) >>,
    << Log(<<A>>), Throw(StringVal) >>,
    << Log(<<A>>), Throw(NullVal) >>,
    << Log(<<A>>), Await, Log(<<B>>), Err(<<A>>) >>,
    << Err(<<A>>), Await, Log(<<B>>), Throw(ErrorObj(M)) >>,
    << Log(<<B>>), Hang >>,
    << Log(<<A>>), Call("exit") >>,
    << Call("require"), Log(<<A>>) >>,
    << Call("import") >>,
    << Log(<<A>>), Await, Call("eval") >>,
    << Log(<<<<"eval", "(">>>>) >>,
    << Log(<<<<"eval">>>>), Call("dynimport") >> }

----------------------------------------------------------------------------
(* evalAndCaptureOutput *)

\* A filter on the keywords alone: eval and import with whatever follows.
DangerousKeywords(text) ==
  \/ Includes(text, <<"process", ".", "exit">>)
  \/ Includes(text, <<"require", "(">>)
  \/ Includes(text, <<"import">>)
  \/ Includes(text, <<"eval">>)

\* The filter with its last pattern forgotten.
DangerousWithoutEval(text) ==
  \/ Includes(text, <<"process", ".", "exit">>)
  \/ Includes(text, <<"require", "(">>)
  \/ Includes(text, <<"import", SP>>)

\* The safety measures: the condition of the if.
Dangerous(text) ==
  \/ Includes(text, <<"process", ".", "exit">>)
  \/ Includes(text, <<"require", "(">>)
  \/ Includes(text, <<"import", SP>>)
  \/ Includes(text, <<"eval", "(">>)

\* new Error('Potentially dangerous code detected')
SafetyError == ErrorObj(<<"Potentially dangerous code detected">>)

\* The TypeError of reading .message of null.
NullMessageError == ErrorObj(<<"Cannot read properties of null (reading 'message')">>)

\* The capture with unshift for push: the newest line first.
CaptureLogUnshift(buf, args) == <<Str(JoinWith(args, SP))>> \o buf

\* (...args) => output.push(args.join(' ')), on the array buf.
CaptureLog(buf, args) == Append(buf, Str(JoinWith(args, SP)))

\* (...args) => errorOutput.push(args.join(' ')), on the array buf.
CaptureError(buf, args) == Append(buf, Str(JoinWith(args, SP)))

\* A call console.log(...args) while console.log is bound to f: the arrow
\* function of invocation f pushes to that invocation's array; the host's
\* function prints to the process's own stdout, which is not modelled.
ConsoleLogCall(f, out, args) ==
  IF f = Host THEN out ELSE [out EXCEPT ![f] = CaptureLog(@, args)]

ConsoleErrorCall(f, err, args) ==
  IF f = Host THEN err ELSE [err EXCEPT ![f] = CaptureError(@, args)]

\* eval(code) and the code's own continuations: statements k, k+1, ... of
\* prog run until the program ends, throws, or awaits a pending promise.
\* st carries the arrays of all invocations and the history of this one.
RECURSIVE Exec(_, _, _)
Exec(prog, k, st) ==
  IF k > Len(prog) THEN [st EXCEPT !.stop = "end", !.k = k]
  ELSE LET s == prog[k] IN
    CASE s.op = "log" ->
           Exec(prog, k + 1, [st EXCEPT !.out = ConsoleLogCall(st.cl, @, s.args),
                                        !.w = Append(@, s.args)])
      [] s.op = "error" ->
           Exec(prog, k + 1, [st EXCEPT !.err = ConsoleErrorCall(st.ce, @, s.args),
                                        !.ew = Append(@, s.args)])
      [] s.op = "logmul" ->
           LET arg == NumberText(s.val[1] * s.val[2])
           IN Exec(prog, k + 1, [st EXCEPT !.out = ConsoleLogCall(st.cl, @, <<arg>>),
                                           !.w = Append(@, <<arg>>)])
      [] s.op \in {"await", "hang"} -> [st EXCEPT !.stop = "await", !.k = k]
      [] s.op = "throw" -> [st EXCEPT !.stop = "throw", !.k = k, !.thrown = s.val]
      [] OTHER -> Exec(prog, k + 1, st)

\* error.message in the catch block.
HasMessage(e) == e[1] # "null"

\* String(error) for error.message: the name of the error before the message.
MessageOfToString(e) == IF e[1] = "Error" THEN Str(<<"Error: ">> \o e[2]) ELSE Str(e[2])

MessageOf(e) == IF e[1] = "Error" THEN Str(e[2]) ELSE Undefined

\* errorOutput.push(error.message)
CatchPush(st, i, e) == [st EXCEPT !.err[i] = Append(@, MessageOf(e))]

\* { stdout: output.join('\n'), stderr: errorOutput.join('\n') }
Result(out, err) == [stdout |-> JoinValues(out, NL), stderr |-> JoinValues(err, NL)]

\* How the promise of evalAndCaptureOutput has settled.
NoRet           == [kind |-> "none", stdout |-> <<>>, stderr |-> <<>>, error |-> <<>>]
Returned(res)   == [kind |-> "returned", stdout |-> res.stdout, stderr |-> res.stderr,
                    error |-> <<>>]
RejectedWith(e) == [kind |-> "rejected", stdout |-> <<>>, stderr |-> <<>>, error |-> e[2]]

\* The two restoring assignments and the return statement.
Leave(st, i, ol, oe) ==
  [st EXCEPT !.cl = ol, !.ce = oe, !.pc = "returned",
             !.ret = Returned(Result(st.out[i], st.err[i]))]

\* The catch block, then the rest of the function.  Reading .message of
\* null throws inside the catch block: the function ends there, rejecting.
Catch(st, i, ol, oe, e) ==
  IF HasMessage(e)
  THEN Leave(CatchPush(st, i, e), i, ol, oe)
  ELSE [st EXCEPT !.pc = "rejected", !.ret = RejectedWith(NullMessageError)]

\* What invocation i does once its code has stopped at st.stop.
Settled(st, i, ol, oe) ==
  CASE st.stop = "await" -> [st EXCEPT !.pc = "awaiting"]
    [] st.stop = "end"   -> Leave(st, i, ol, oe)
    [] OTHER             -> Catch(st, i, ol, oe, st.thrown)

----------------------------------------------------------------------------
(* app.post('/') *)

\* response.ok
ResponseOk(status) == status >= 200 /\ status <= 299

NoResp == [status |-> 0, fields |-> {}, stdout |-> <<>>, stderr |-> <<>>, error |-> <<>>]

\* res.status(400).json({ error: 'Code is required' })
CodeRequired ==
  [status |-> 400, fields |-> {"error"}, stdout |-> <<>>, stderr |-> <<>>,
   error |-> <<"Code is required">>]

\* res.json(result), or the handler's catch block when the await threw.
Respond(r) ==
  CASE r.kind = "returned" ->
         [status |-> 200, fields |-> {"stdout", "stderr"}, stdout |-> r.stdout,
          stderr |-> r.stderr, error |-> <<>>]
    [] r.kind = "rejected" ->
         [status |-> 500, fields |-> {"stdout", "stderr"}, stdout |-> <<>>,
          stderr |-> <<"Execution error: ">> \o r.error, error |-> <<>>]
    [] OTHER -> NoResp

----------------------------------------------------------------------------
(* run_javascript_code_tool: the handler of the agent's jsExecutor tool *)

\* What fetch gives the handler: a rejection (the executor is unreachable),
\* or a response, whose body is JSON text or is not.
FetchRejects     == [kind |-> "rejects", status |-> 0, json |-> FALSE, body |-> NoResp,
                     error |-> ErrorObj(<<"fetch failed">>)]
FetchResponse(r) == [kind |-> "response", status |-> r.status, json |-> TRUE, body |-> r,
                     error |-> ErrorObj(<<>>)]
FetchNotJson     == [kind |-> "response", status |-> 200, json |-> FALSE, body |-> NoResp,
                     error |-> ErrorObj(<<>>)]

\* How a call of the handler ends: it returns value, or it throws thrown.
NoToolResult     == [kind |-> "none", value |-> NoResp, thrown |-> ErrorObj(<<>>)]
ToolReturns(v)   == [kind |-> "return", value |-> v, thrown |-> ErrorObj(<<>>)]
ToolThrows(e)    == [kind |-> "throw", value |-> NoResp, thrown |-> e]

\* The parsed body of a response: response.json() knows no status.
BodyOf(r) == [r EXCEPT !.status = 0]

\* The try block: fetch, the response.ok test, response.json().
JsExecutorTry(f) ==
  IF f.kind = "rejects" THEN ToolThrows(f.error)
  ELSE IF ~ResponseOk(f.status)
       THEN ToolThrows(ErrorObj(<<"HTTP error! status: ">> \o NumberText(f.status)))
  ELSE IF ~f.json
       THEN ToolThrows(ErrorObj(<<"Unexpected token '<', \"<html>\" is not valid JSON">>))
  ELSE ToolReturns(BodyOf(f.body))

\* The catch block: { stdout: '', stderr: `Error executing code: ${error.message}` }
JsExecutorCatch(e) ==
  ToolReturns([status |-> 0, fields |-> {"stdout", "stderr"}, stdout |-> <<>>,
               stderr |-> <<"Error executing code: ">> \o e[2], error |-> <<>>])

\* The handler with only fetch and the status test inside its try block.
JsExecutorParsesOutsideTry(f) ==
  LET t == JsExecutorTry(f)
  IN IF t.kind = "throw" /\ (f.kind = "rejects" \/ ~ResponseOk(f.status))
     THEN JsExecutorCatch(t.thrown) ELSE t

\* The handler that returns the parsed body's stdout alone.
JsExecutorDropsStderr(f) ==
  LET t == JsExecutorTry(f)
  IN IF t.kind = "throw" THEN JsExecutorCatch(t.thrown)
     ELSE ToolReturns([t.value EXCEPT !.stderr = <<>>])

\* The handler that reads the body of a response that is not ok.
JsExecutorKeepsErrorBody(f) ==
  LET t == JsExecutorTry(f)
  IN IF f.kind = "response" /\ ~ResponseOk(f.status) /\ f.json
     THEN ToolReturns(BodyOf(f.body))
     ELSE IF t.kind = "throw" THEN JsExecutorCatch(t.thrown) ELSE t

\* async ({ code }) => { try { ... } catch (error) { ... } }
JsExecutor(f) ==
  LET t == JsExecutorTry(f)
  IN IF t.kind = "throw" THEN JsExecutorCatch(t.thrown) ELSE t

----------------------------------------------------------------------------
(* The agent service: requests, messages, responses *)

\* Number of requests to POST /generate in one behaviour.
MaxReq == 3

Req == 1..MaxReq

\* Supersteps a run of the graph may make: the recursionLimit of the graph.
RecursionLimit == 3

\* A value is falsy: undefined or ''.
Falsy(v) == v.t = "undefined" \/ v.s = <<>>

\* The bodies of the requests: prompt absent, empty or text; thread_id absent
\* or text.
Bodies ==
  { [prompt |-> Undefined, thread_id |-> Undefined],
    [prompt |-> Str(<<>>), thread_id |-> Undefined],
    [prompt |-> Str(<<"hi">>), thread_id |-> Undefined],
    [prompt |-> Str(<<"hi">>), thread_id |-> Str(<<"t1">>)] }

\* thread_id || 'default'
ThreadOf(body) == IF Falsy(body.thread_id) THEN <<"default">> ELSE body.thread_id.s

ThreadKeys == {ThreadOf(b) : b \in Bodies}

\* Messages of the graph's state; by names the request whose run added it.
UserMessage(r, prompt)   == [role |-> "user", content |-> prompt, by |-> r]
AiMessage(r, content)    == [role |-> "assistant", content |-> content, by |-> r]
ToolMessage(r, content)  == [role |-> "tool", content |-> content, by |-> r]

NoGResp == [status |-> 0, fields |-> {}, content |-> <<>>, error |-> <<>>]

\* What the model answers: a final message, a tool call, or a failure.
NoCall == [kind |-> "none", content |-> <<>>, name |-> "", arg |-> <<>>]

----------------------------------------------------------------------------
(* app.get('/health') *)

\* The two services: the agent API and the JS executor.
Services == {"agent", "executor"}

\* GET /health requests answered by each service in one behaviour.
MaxProbes == 2

\* Requests of each service in flight while it is probed.
MaxProbed == 1

NoHealth == [status |-> 0, body |-> <<>>]

\* A probe answered 503 with no payload.
HealthDown == [status |-> 503, body |-> <<>>]

\* res.json({ status: 'OK' })
HealthOk == [status |-> 200, body |-> <<"status", "OK">>]

----------------------------------------------------------------------------
(* The chat client: sessions, texts, the request body *)

\* Browser sessions, each with one mounted App component.
MaxSessions == 2

Sessions == 1..MaxSessions

\* Chat requests the sessions send in one behaviour.
MaxSent == 2

\* What the user can have in the textarea: nothing, a space, a word.
Inputs == { <<>>, <<SP>>, <<"hi">> }

\* useState(Date.now()): the millisecond of the mount, sessions mounted one
\* per millisecond.
ThreadIdOf(s) == s

IsSpace(c) == c \in {SP, NL}

\* inputValue.trim()
RECURSIVE Trim(_)
Trim(text) ==
  IF text = <<>> THEN <<>>
  ELSE IF IsSpace(text[1]) THEN Trim(Tail(text))
  ELSE IF IsSpace(text[Len(text)]) THEN Trim(SubSeq(text, 1, Len(text) - 1))
  ELSE text

\* A number as a JavaScript value.
Num(n) == [t |-> "number", s |-> NumberText(n)]

\* { prompt: inputValue, threadId: threadId }
ClientBody(text, tid) == [prompt |-> Str(text), threadId |-> Num(tid)]

\* JSON.stringify of an object of strings and numbers: each member's text,
\* a string between double quotes.
JsonStringify(obj) ==
  [k \in DOMAIN obj |->
     IF obj[k].t = "string" THEN <<"\"">> \o obj[k].s \o <<"\"">> ELSE obj[k].s]

\* express.json(): the object of a JSON text, a quoted member a string.
JsonParse(text) ==
  [k \in DOMAIN text |->
     IF text[k] # <<>> /\ text[k][1] = "\""
     THEN Str(SubSeq(text[k], 2, Len(text[k]) - 1))
     ELSE [t |-> "number", s |-> text[k]]]

\* The value of a member of an object: undefined when it has none.
Member(obj, k) == IF k \in DOMAIN obj THEN obj[k] ELSE Undefined

\* const { prompt, thread_id } = req.body
Destructure(obj) == [prompt |-> Member(obj, "prompt"), thread_id |-> Member(obj, "thread_id")]

----------------------------------------------------------------------------
(* The executor serving the handler's requests *)

\* The state a run of invocation i starts from.
Running(i, cl, ce) ==
  [cl |-> cl, ce |-> ce, out |-> output, err |-> errorOutput,
   w |-> writes[i], ew |-> ewrites[i], stop |-> "run", k |-> 0,
   thrown |-> <<"none", <<>>>>, pc |-> "running", ret |-> NoRet]

InFlight(i) == pc[i] = "awaiting"

\* The state after a run of invocation i that ended as st.
Commit(i, st) ==
  /\ consoleLog' = st.cl
  /\ consoleError' = st.ce
  /\ output' = st.out
  /\ errorOutput' = st.err
  /\ writes' = [writes EXCEPT ![i] = st.w]
  /\ ewrites' = [ewrites EXCEPT ![i] = st.ew]
  /\ pc' = [pc EXCEPT ![i] = st.pc]
  /\ ip' = [ip EXCEPT ![i] = st.k]
  /\ ret' = [ret EXCEPT ![i] = st.ret]
  /\ resp' = [resp EXCEPT ![i] = Respond(st.ret)]
  /\ tool' = [tool EXCEPT ![i] = IF st.ret.kind = "none" THEN @
                                  ELSE JsExecutor(FetchResponse(Respond(st.ret)))]

\* A request POST / with body {code: Text(prog)} arrives: the handler runs,
\* and evalAndCaptureOutput with it, up to the first await of a pending
\* promise or to the response.
Post(i, prog) ==
  /\ pc[i] = "idle"
  /\ code' = [code EXCEPT ![i] = prog]
  /\ IF Text(prog) = <<>>
     THEN /\ pc' = [pc EXCEPT ![i] = "invalid"]
          /\ resp' = [resp EXCEPT ![i] = CodeRequired]
          /\ tool' = [tool EXCEPT ![i] = JsExecutor(FetchResponse(CodeRequired))]
          /\ UNCHANGED <<consoleLog, consoleError, ip, oldLog, oldError, output,
                         errorOutput, ret, evalReached, writes, ewrites, overlapped>>
     ELSE LET ol == consoleLog
              oe == consoleError
              st0 == Running(i, i, i)
              others == {j \in Inv : j # i /\ InFlight(j)}
          IN /\ oldLog' = [oldLog EXCEPT ![i] = ol]
             /\ oldError' = [oldError EXCEPT ![i] = oe]
             /\ overlapped' = [j \in Inv |->
                   IF others # {} /\ j \in others \cup {i} THEN TRUE ELSE overlapped[j]]
             /\ IF Dangerous(Text(prog))
                THEN /\ Commit(i, Catch(st0, i, ol, oe, SafetyError))
                     /\ UNCHANGED evalReached
                ELSE /\ Commit(i, Settled(Exec(prog, 1, st0), i, ol, oe))
                     /\ evalReached' = [evalReached EXCEPT ![i] = TRUE]
  /\ UNCHANGED <<weatherVars, agentVars, healthVars, clientVars>>

\* The promise invocation i's code awaits settles: the code continues, up
\* to its next await of a pending promise or to the response.
Resume(i) ==
  /\ pc[i] = "awaiting"
  /\ code[i][ip[i]].op = "await"
  /\ Commit(i, Settled(Exec(code[i], ip[i] + 1, Running(i, consoleLog, consoleError)),
                       i, oldLog[i], oldError[i]))
  /\ UNCHANGED <<code, oldLog, oldError, evalReached, overlapped>>
  /\ UNCHANGED <<weatherVars, agentVars, healthVars, clientVars>>

\* The handler's fetch rejects: the request never gets to the executor.
Unreachable(i) ==
  /\ pc[i] = "idle"
  /\ pc' = [pc EXCEPT ![i] = "unreached"]
  /\ tool' = [tool EXCEPT ![i] = JsExecutor(FetchRejects)]
  /\ UNCHANGED <<consoleLog, consoleError, code, ip, oldLog, oldError, output,
                 errorOutput, ret, resp, evalReached, writes, ewrites, overlapped>>
  /\ UNCHANGED <<weatherVars, agentVars, healthVars, clientVars>>

\* The handler's fetch is answered with status 200 and a body that is not
\* JSON, by something that stands between the agent and the executor.
Garbled(i) ==
  /\ pc[i] = "idle"
  /\ pc' = [pc EXCEPT ![i] = "garbled"]
  /\ tool' = [tool EXCEPT ![i] = JsExecutor(FetchNotJson)]
  /\ UNCHANGED <<consoleLog, consoleError, code, ip, oldLog, oldError, output,
                 errorOutput, ret, resp, evalReached, writes, ewrites, overlapped>>
  /\ UNCHANGED <<weatherVars, agentVars, healthVars, clientVars>>

Init ==
  /\ consoleLog = Host
  /\ consoleError = Host
  /\ pc = [i \in Inv |-> "idle"]
  /\ code = [i \in Inv |-> <<>>]
  /\ ip = [i \in Inv |-> 0]
  /\ oldLog = [i \in Inv |-> Host]
  /\ oldError = [i \in Inv |-> Host]
  /\ output = [i \in Inv |-> <<>>]
  /\ errorOutput = [i \in Inv |-> <<>>]
  /\ ret = [i \in Inv |-> NoRet]
  /\ resp = [i \in Inv |-> NoResp]
  /\ tool = [i \in Inv |-> NoToolResult]
  /\ evalReached = [i \in Inv |-> FALSE]
  /\ writes = [i \in Inv |-> <<>>]
  /\ ewrites = [i \in Inv |-> <<>>]
  /\ overlapped = [i \in Inv |-> FALSE]
  /\ query = <<>>
  /\ forecast = <<>>
  /\ gpc = [r \in Req |-> "idle"]
  /\ gbody = [r \in Req |-> [prompt |-> Undefined, thread_id |-> Undefined]]
  /\ gstate = [r \in Req |-> <<>>]
  /\ gsteps = [r \in Req |-> 0]
  /\ gcall = [r \in Req |-> NoCall]
  /\ gresp = [r \in Req |-> NoGResp]
  /\ gsent = [r \in Req |-> 0]
  /\ store = [t \in ThreadKeys |-> <<>>]
  /\ invoked = [r \in Req |-> FALSE]
  /\ gseen = [r \in Req |-> <<>>]
  /\ gprior = [r \in Req |-> {}]
  /\ gended = [r \in Req |-> ""]
  /\ hresp = [s \in Services |-> NoHealth]
  /\ probes = [s \in Services |-> 0]
  /\ inputValue = [s \in Sessions |-> <<>>]
  /\ isLoading = [s \in Sessions |-> FALSE]
  /\ cmessages = [s \in Sessions |-> <<>>]
  /\ fetching = [s \in Sessions |-> 0]
  /\ owner = [r \in Req |-> 0]
  /\ outcome = [r \in Req |-> ""]

Next ==
  \/ \E i \in Inv, prog \in Programs : Post(i, prog)
  \/ \E i \in Inv : Resume(i)
  \/ \E i \in Inv : Unreachable(i)
  \/ \E i \in Inv : Garbled(i)

Spec == Init /\ [][Next]_vars

\* The event loop runs every callback that is ready: a promise that settles
\* has its continuation run.  A promise that never settles has none.
FairSpec == Spec /\ \A i \in Inv : WF_vars(Resume(i))

----------------------------------------------------------------------------
(* The weather tool of the agent *)

\* Longest query, in words.
MaxQueryLen == 3

\* The words and spaces queries are made of.
Words == {"San", "SAN", "san", SP, "Francisco", "francisco", "Paris"}

Queries == UNION {[1..n -> Words] : n \in 0..MaxQueryLen}

\* String.prototype.toLowerCase, word by word.
LowerWord(w) ==
  CASE w \in {"San", "SAN"}  -> "san"
    [] w = "Francisco"       -> "francisco"
    [] w = "Paris"           -> "paris"
    [] OTHER                 -> w

ToLowerCase(q) == [k \in 1..Len(q) |-> LowerWord(q[k])]

\* The tool without toLowerCase.
WeatherCaseSensitive(q) ==
  IF Includes(q, <<"san", SP, "francisco">>)
  THEN <<"It's 60 degrees and foggy.">>
  ELSE <<"It's 90 degrees and sunny.">>

\* async ({ query }) => ...
Weather(q) ==
  IF Includes(ToLowerCase(q), <<"san", SP, "francisco">>)
  THEN <<"It's 60 degrees and foggy.">>
  ELSE <<"It's 90 degrees and sunny.">>

\* The tool is called with a query.
AskWeather(q) ==
  /\ query' = q
  /\ forecast' = Weather(q)
  /\ UNCHANGED <<execVars, agentVars, healthVars, clientVars>>

WeatherNext == \E q \in Queries : AskWeather(q)

WeatherSpec == Init /\ [][WeatherNext]_vars

----------------------------------------------------------------------------
(* app.post('/generate') and agent.invoke *)

OracleAnswers ==
  { [kind |-> "final", content |-> <<"answer">>, name |-> "", arg |-> <<>>],
    [kind |-> "final", content |-> <<>>, name |-> "", arg |-> <<>>],
    [kind |-> "tool", content |-> <<>>, name |-> "weather",
     arg |-> <<"San", SP, "Francisco">>],
    [kind |-> "tool", content |-> <<>>, name |-> "run_javascript_code_tool",
     arg |-> Text(<<LogMul(15, 37)>>)],
    [kind |-> "fail", content |-> <<>>, name |-> "", arg |-> <<>>] }

\* The content of the tool message made of a tool's return value.
ToolText(t) == <<"stdout:">> \o t.value.stdout \o <<"stderr:">> \o t.value.stderr

\* What the called tool can return.
ToolResults(call) ==
  IF call.name = "weather" THEN {Weather(call.arg)}
  ELSE { ToolText(JsExecutor(FetchResponse(Respond(Returned(
           [stdout |-> <<"5", "5", "5">>, stderr |-> <<>>]))))) }

\* The test prompt === undefined in the place of !prompt: '' passes.
PromptUndefined(body) == body.prompt.t = "undefined"

\* !prompt
PromptMissing(body) == Falsy(body.prompt)

\* res.status(400).json({ error: 'Prompt is required' })
PromptRequired ==
  [status |-> 400, fields |-> {"error"}, content |-> <<>>,
   error |-> <<"Prompt is required">>]

\* The response without the fallback text: the last content as it is.
ContentResponseAsIs(messages) ==
  [status |-> 200, fields |-> {"content"},
   content |-> IF messages = <<>> THEN <<>> ELSE messages[Len(messages)].content,
   error |-> <<>>]

\* result.messages.at(-1)?.content || 'No response generated', res.json
ContentResponse(messages) ==
  LET last == IF messages = <<>> THEN Undefined ELSE Str(messages[Len(messages)].content)
  IN [status |-> 200, fields |-> {"content"},
      content |-> IF Falsy(last) THEN <<"No response generated">> ELSE last.s,
      error |-> <<>>]

\* A catch block that logs the error and sends nothing.
InternalErrorUnsent == NoGResp

\* res.status(500).json({ error: 'Internal server error' })
InternalError ==
  [status |-> 500, fields |-> {"error"}, content |-> <<>>,
   error |-> <<"Internal server error">>]

\* The handler sends a response.
Send(r, response) ==
  /\ gresp' = [gresp EXCEPT ![r] = response]
  /\ gsent' = [gsent EXCEPT ![r] = IF response.status = 0 THEN @ ELSE @ + 1]

\* A checkpoint of the thread is put: it becomes the thread's latest.
PutCheckpoint(t, messages) == store' = [store EXCEPT ![t] = messages]

\* agent.invoke ends: it returns its state, or it throws (the model failed,
\* or the run made RecursionLimit supersteps without a final message); the
\* handler answers.
InvokeEnds(r, how, messages) ==
  /\ gpc' = [gpc EXCEPT ![r] = "done"]
  /\ gended' = [gended EXCEPT ![r] = how]
  /\ Send(r, IF how = "final" THEN ContentResponse(messages) ELSE InternalError)

\* A request POST /generate arrives (requests are numbered as they arrive): the
\* handler tests the prompt and calls
\* agent.invoke, which takes the thread's latest checkpoint, adds the user
\* message, puts the checkpoint of its input, and calls the model.
Generate(r, body) ==
  /\ gpc[r] = "idle"
  /\ \A q \in Req : q < r => gpc[q] # "idle"
  /\ gbody' = [gbody EXCEPT ![r] = body]
  /\ IF PromptMissing(body)
     THEN /\ gpc' = [gpc EXCEPT ![r] = "done"]
          /\ Send(r, PromptRequired)
          /\ UNCHANGED <<gstate, gsteps, gcall, store, invoked, gseen, gprior, gended>>
     ELSE LET t == ThreadOf(body)
              messages == Append(store[t], UserMessage(r, body.prompt.s))
          IN /\ gpc' = [gpc EXCEPT ![r] = "model"]
             /\ gstate' = [gstate EXCEPT ![r] = messages]
             /\ PutCheckpoint(t, messages)
             /\ invoked' = [invoked EXCEPT ![r] = TRUE]
             /\ gseen' = [gseen EXCEPT ![r] = messages]
             /\ gprior' = [gprior EXCEPT ![r] = {q \in Req : gpc[q] = "done" /\ invoked[q]}]
             /\ UNCHANGED <<gsteps, gcall, gresp, gsent, gended>>
  /\ UNCHANGED <<execVars, weatherVars, healthVars>>

\* The model answers the run of request r, or fails.
OracleReplies(r, answer) ==
  /\ gpc[r] = "model"
  /\ LET t == ThreadOf(gbody[r])
         messages == Append(gstate[r], AiMessage(r, answer.content))
     IN CASE answer.kind = "fail" ->
               /\ InvokeEnds(r, "failed", gstate[r])
               /\ UNCHANGED <<gstate, gsteps, gcall, store>>
          [] answer.kind = "final" ->
               /\ gstate' = [gstate EXCEPT ![r] = messages]
               /\ gsteps' = [gsteps EXCEPT ![r] = @ + 1]
               /\ PutCheckpoint(t, messages)
               /\ InvokeEnds(r, "final", messages)
               /\ UNCHANGED gcall
          [] OTHER ->
               /\ gstate' = [gstate EXCEPT ![r] = messages]
               /\ gsteps' = [gsteps EXCEPT ![r] = @ + 1]
               /\ PutCheckpoint(t, messages)
               /\ IF gsteps[r] + 1 >= RecursionLimit
                  THEN InvokeEnds(r, "limit", messages) /\ UNCHANGED gcall
                  ELSE /\ gpc' = [gpc EXCEPT ![r] = "tools"]
                       /\ gcall' = [gcall EXCEPT ![r] = answer]
                       /\ UNCHANGED <<gresp, gsent, gended>>
  /\ UNCHANGED <<gbody, invoked, gseen, gprior>>
  /\ UNCHANGED <<execVars, weatherVars, healthVars, clientVars>>

\* The tool called by the run of request r returns.
ToolReplies(r, result) ==
  /\ gpc[r] = "tools"
  /\ result \in ToolResults(gcall[r])
  /\ LET t == ThreadOf(gbody[r])
         messages == Append(gstate[r], ToolMessage(r, result))
     IN /\ gstate' = [gstate EXCEPT ![r] = messages]
        /\ gsteps' = [gsteps EXCEPT ![r] = @ + 1]
        /\ PutCheckpoint(t, messages)
        /\ IF gsteps[r] + 1 >= RecursionLimit
           THEN InvokeEnds(r, "limit", messages)
           ELSE /\ gpc' = [gpc EXCEPT ![r] = "model"]
                /\ UNCHANGED <<gresp, gsent, gended>>
  /\ UNCHANGED <<gbody, gcall, invoked, gseen, gprior>>
  /\ UNCHANGED <<execVars, weatherVars, healthVars, clientVars>>

AllToolResults == UNION {ToolResults(a) : a \in OracleAnswers}

\* A request of some other client than the chat client arrives.
Request(r, body) == Generate(r, body) /\ UNCHANGED clientVars

AgentNext ==
  \/ \E r \in Req, body \in Bodies : Request(r, body)
  \/ \E r \in Req, answer \in OracleAnswers : OracleReplies(r, answer)
  \/ \E r \in Req, result \in AllToolResults : ToolReplies(r, result)

AgentSpec == Init /\ [][AgentNext]_vars

----------------------------------------------------------------------------
(* App.jsx: sendMessage *)

\* The guard with trim left out: !inputValue || isLoading
BlockedUntrimmed(s) == inputValue[s] = <<>> \/ isLoading[s]

\* if (!inputValue.trim() || isLoading) return
Blocked(s) == Trim(inputValue[s]) = <<>> \/ isLoading[s]

\* setMessages(prev => [...prev, message])
SetMessages(s, message) == cmessages' = [cmessages EXCEPT ![s] = Append(@, message)]

\* The message of the catch block with the prefix left out.
ErrorMessageBare(message) == [role |-> "assistant", content |-> message]

\* { role: 'assistant', content: `Error: ${error.message}` }
ErrorMessage(message) == [role |-> "assistant", content |-> <<"Error: ">> \o message]

\* { role: 'assistant', content: data.content || 'No response received' }
AssistantMessage(data) ==
  [role |-> "assistant",
   content |-> IF "content" \notin data.fields \/ data.content = <<>>
               THEN <<"No response received">> ELSE data.content]

\* A call of sendMessage in session s, by the Send button or the Enter key:
\* up to the await of fetch.  The request is the next the server takes.
SendMessage(s, r) ==
  IF Blocked(s)
  THEN UNCHANGED vars
  ELSE /\ SetMessages(s, [role |-> "user", content |-> inputValue[s]])
       /\ inputValue' = [inputValue EXCEPT ![s] = <<>>]
       /\ isLoading' = [isLoading EXCEPT ![s] = TRUE]
       /\ fetching' = [fetching EXCEPT ![s] = r]
       /\ owner' = [owner EXCEPT ![r] = s]
       /\ UNCHANGED outcome
       /\ Generate(r, Destructure(JsonParse(JsonStringify(
                        ClientBody(inputValue[s], ThreadIdOf(s))))))

\* onChange of the textarea, which is disabled while isLoading.
Change(s, text) ==
  /\ ~isLoading[s]
  /\ text # inputValue[s]
  /\ inputValue' = [inputValue EXCEPT ![s] = text]
  /\ UNCHANGED <<isLoading, cmessages, fetching, owner, outcome>>
  /\ UNCHANGED <<execVars, weatherVars, agentVars, healthVars>>

\* The awaited fetch settles and sendMessage runs to its end: the try block
\* after the await, the catch block when it threw, the finally block.
Settle(s, how, message) ==
  /\ SetMessages(s, message)
  /\ isLoading' = [isLoading EXCEPT ![s] = FALSE]
  /\ fetching' = [fetching EXCEPT ![s] = 0]
  /\ outcome' = [outcome EXCEPT ![fetching[s]] = how]
  /\ UNCHANGED <<inputValue, owner>>
  /\ UNCHANGED <<execVars, weatherVars, agentVars, healthVars>>

\* The response of the server arrives.
ResponseArrives(s) ==
  /\ fetching[s] # 0
  /\ gpc[fetching[s]] = "done"
  /\ LET response == gresp[fetching[s]]
     IN Settle(s, "response",
               IF ~ResponseOk(response.status)
               THEN ErrorMessage(<<"HTTP error! status: ">> \o NumberText(response.status))
               ELSE AssistantMessage(response))

\* fetch rejects: the connection fails before a response has arrived.
FetchFails(s) ==
  /\ fetching[s] # 0
  /\ Settle(s, "failed", ErrorMessage(<<"Failed to fetch">>))

ClientNext ==
  \/ \E s \in Sessions, r \in 1..MaxSent : SendMessage(s, r)
  \/ \E s \in Sessions, text \in Inputs : Change(s, text)
  \/ \E s \in Sessions : ResponseArrives(s)
  \/ \E s \in Sessions : FetchFails(s)
  \/ \E r \in Req, answer \in OracleAnswers : OracleReplies(r, answer)
  \/ \E r \in Req, result \in AllToolResults : ToolReplies(r, result)

ClientSpec == Init /\ [][ClientNext]_vars

----------------------------------------------------------------------------
(* The services probed while they serve requests *)

\* GET /health of service s: the handler sends the payload, nothing else.
Health(s) ==
  /\ probes[s] < MaxProbes
  /\ hresp' = [hresp EXCEPT ![s] = HealthOk]
  /\ probes' = [probes EXCEPT ![s] = @ + 1]
  /\ UNCHANGED <<execVars, weatherVars, agentVars, clientVars>>

HealthNext ==
  \/ \E s \in Services : Health(s)
  \/ \E i \in 1..MaxProbed, prog \in Programs : Post(i, prog)
  \/ \E i \in 1..MaxProbed : Resume(i)
  \/ \E r \in 1..MaxProbed, body \in Bodies : Request(r, body)
  \/ \E r \in 1..MaxProbed, answer \in OracleAnswers : OracleReplies(r, answer)
  \/ \E r \in 1..MaxProbed, result \in AllToolResults : ToolReplies(r, result)

HealthSpec == Init /\ [][HealthNext]_vars

----------------------------------------------------------------------------
(* What the claims speak of *)

DenyList ==
  { <<"process", ".", "exit">>, <<"require", "(">>, <<"import", SP>>, <<"eval", "(">> }

HasDenylisted(text) == \E pat \in DenyList : Includes(text, pat)

Started(i)  == pc[i] \in {"awaiting", "returned", "rejected"}
Finished(i) == pc[i] \in {"returned", "rejected"}

Accepted(i) == Started(i) /\ ~HasDenylisted(Text(code[i]))
Refused(i)  == Started(i) /\ HasDenylisted(Text(code[i]))

Throws(prog) == \E k \in 1..Len(prog) : prog[k].op = "throw"
ThrownBy(prog) == prog[Len(prog)].val

\* The lines a program writes with console.log / console.error when it runs
\* to its end or to its throw: each call's arguments separated by a space.
RECURSIVE LinesOf(_, _)
LinesOf(prog, op) ==
  IF prog = <<>> THEN <<>>
  ELSE IF prog[1].op = op
       THEN <<JoinWith(prog[1].args, SP)>> \o LinesOf(Tail(prog), op)
  ELSE IF prog[1].op = "logmul" /\ op = "log"
       THEN <<NumberText(prog[1].val[1] * prog[1].val[2])>> \o LinesOf(Tail(prog), op)
       ELSE LinesOf(Tail(prog), op)

\* The lines of the calls recorded in a history.
RECURSIVE LinesOfCalls(_)
LinesOfCalls(calls) ==
  IF calls = <<>> THEN <<>>
  ELSE <<JoinWith(calls[1], SP)>> \o LinesOfCalls(Tail(calls))

\* C1: code whose text contains 'process.exit', 'require(', 'import ' or
\* 'eval(' never reaches eval and none of its statements runs, whatever
\* other invocations are in flight.
C1_DenylistedNeverEvaluated ==
  \A i \in Inv : Refused(i) =>
    /\ ~evalReached[i]
    /\ writes[i] = <<>>
    /\ ewrites[i] = <<>>

C1_Witness ==
  \E i \in Inv, j \in Inv :
    /\ i # j
    /\ Refused(i) /\ pc[i] = "returned"
    /\ Len(code[i]) > 1
    /\ InFlight(j) /\ evalReached[j]

\* C2: when the filter rejects the code, evalAndCaptureOutput returns stdout
\* '' and stderr exactly 'Potentially dangerous code detected'.
C2_RejectionResult ==
  \A i \in Inv : Refused(i) =>
    /\ ret[i].kind = "returned"
    /\ ret[i].stdout = <<>>
    /\ ret[i].stderr = <<"Potentially dangerous code detected">>

C2_Witness ==
  \E i \in Inv, j \in Inv :
    /\ i # j
    /\ Refused(i) /\ ret[i].kind = "returned"
    /\ InFlight(j) /\ consoleLog = j /\ output[j] # <<>>

\* C8: accepted code that runs to completion without a fault, with no other
\* invocation in flight, gets as stdout exactly its console.log writes, in
\* program order, one per line.
C8_StdoutIsWritesInOrder ==
  \A i \in Inv :
    (Accepted(i) /\ Finished(i) /\ ~Throws(code[i]) /\ ~overlapped[i]) =>
      /\ ret[i].kind = "returned"
      /\ ret[i].stdout = JoinWith(LinesOf(code[i], "log"), NL)
      /\ LinesOfCalls(writes[i]) = LinesOf(code[i], "log")

C8_Witness ==
  \E i \in Inv :
    /\ Accepted(i) /\ pc[i] = "returned" /\ ~Throws(code[i]) /\ ~overlapped[i]
    /\ Len(LinesOf(code[i], "log")) >= 2
    /\ Len(code[i][1].args) >= 2
    /\ oldLog[i] # Host

\* No call of evalAndCaptureOutput has ended by rejecting.
NoneRejected == \A j \in Inv : pc[j] # "rejected"

\* The stderr a finished invocation owes its own code: its console.error
\* lines, then the message of what it threw, if it threw.
OwnStderr(i) ==
  LET lines == LinesOfCalls(ewrites[i])
      e == ThrownBy(code[i])
  IN IF Throws(code[i])
     THEN JoinWith(lines \o <<IF e[1] = "Error" THEN e[2] ELSE <<>>>>, NL)
     ELSE JoinWith(lines, NL)

\* C3: when invocations overlap, the stdout and stderr each one returns hold
\* the writes of its own code, all of them and no others (stated for runs in
\* which no call rejects).
C3_OverlapKeepsOutputsApart ==
  \A i \in Inv :
    (Accepted(i) /\ ret[i].kind = "returned" /\ overlapped[i] /\ NoneRejected) =>
      /\ ret[i].stdout = JoinWith(LinesOfCalls(writes[i]), NL)
      /\ ret[i].stderr = OwnStderr(i)

\* C4: once every invocation of an overlapping set has finished, console.log
\* and console.error are the host's functions again (stated for runs in which
\* no call rejects).
C4_HostConsoleAfterOverlap ==
  ((\A i \in Inv : ~InFlight(i)) /\ (\E i \in Inv : overlapped[i]) /\ NoneRejected) =>
    /\ consoleLog = Host
    /\ consoleError = Host

\* C5: an invocation that overlaps no other leaves console.log and
\* console.error as they were when it began, however it ends.
C5_RestoredOnEveryExit ==
  [][\A i \in Inv :
       (~Finished(i) /\ Finished(i)' /\ ~overlapped'[i]) =>
         /\ consoleLog' = oldLog'[i]
         /\ consoleError' = oldError'[i]]_vars

\* C6: evalAndCaptureOutput's promise is never rejected.
C6_NeverRejects == \A i \in Inv : ret[i].kind # "rejected"

\* C7: every invocation that has begun comes to an end, also when its code
\* awaits a promise that never settles.
C7_EveryInvocationEnds == \A i \in Inv : Started(i) ~> Finished(i)

\* C9: accepted code that writes and then throws an Error gets back every
\* line it wrote before the throw, in order, and a stderr that ends with the
\* Error's message, after its own console.error lines (stated for runs in
\* which no call rejects).
C9_OutputKeptOnFault ==
  \A i \in Inv :
    (Accepted(i) /\ Finished(i) /\ Throws(code[i]) /\ ThrownBy(code[i])[1] = "Error"
       /\ NoneRejected) =>
      /\ ret[i].kind = "returned"
      /\ ret[i].stdout = JoinWith(LinesOf(code[i], "log"), NL)
      /\ ret[i].stderr = JoinWith(LinesOf(code[i], "error") \o <<ThrownBy(code[i])[2]>>, NL)

\* C10: a response for a rejected or faulted execution has an empty stdout
\* and a non-empty stderr; a response for an execution that completed
\* normally has an empty stderr.
C10_ResponseEncodesOutcome ==
  \A i \in Inv :
    Finished(i) =>
      IF Refused(i) \/ Throws(code[i])
      THEN resp[i].stdout = <<>> /\ resp[i].stderr # <<>>
      ELSE resp[i].stderr = <<>>

\* C11: every request to POST / whose code field holds text, the empty
\* string included, is answered, and the body of the answer has the fields
\* stdout and stderr.
C11_EveryTextAnswered ==
  \A i \in Inv :
    pc[i] \in {"returned", "rejected", "invalid"} =>
      /\ resp[i].status # 0
      /\ resp[i].fields = {"stdout", "stderr"}

\* The tool result the handler owes a failure with the given message.
ToolFailure(message) ==
  [status |-> 0, fields |-> {"stdout", "stderr"}, stdout |-> <<>>,
   stderr |-> <<"Error executing code: ">> \o message, error |-> <<>>]

\* C12: the run_javascript_code_tool handler never throws; when the executor
\* is unreachable, answers with a status that is not 2xx, or sends a body
\* that is not JSON, it returns stdout '' and stderr 'Error executing code: '
\* followed by the failure's message.
C12_ToolHandlerNeverThrows ==
  \A i \in Inv :
    /\ tool[i].kind # "throw"
    /\ pc[i] = "unreached" => tool[i] = ToolReturns(ToolFailure(<<"fetch failed">>))
    /\ pc[i] = "garbled" =>
         /\ tool[i].kind = "return"
         /\ tool[i].value.stdout = <<>>
         /\ SubSeq(tool[i].value.stderr, 1, 1) = <<"Error executing code: ">>
         /\ Len(tool[i].value.stderr) = 2
    /\ resp[i].status = 400 =>
         tool[i] = ToolReturns(ToolFailure(<<"HTTP error! status: ", "4", "0", "0">>))
    /\ resp[i].status = 500 =>
         tool[i] = ToolReturns(ToolFailure(<<"HTTP error! status: ", "5", "0", "0">>))

C12_Witness ==
  \E i \in Inv, j \in Inv :
    /\ resp[i].status = 500 /\ tool[i].kind = "return"
    /\ pc[j] = "garbled" /\ tool[j].kind = "return"

\* C20: for every response of the executor with a 2xx status the handler
\* returns the body {stdout, stderr} unchanged; code that prints 15*37 gives
\* the tool result stdout '555', stderr ''.
C20_ToolReturnsBodyUnchanged ==
  \A i \in Inv :
    /\ (resp[i].status # 0 /\ resp[i].status \in 200..299) =>
         /\ tool[i].kind = "return"
         /\ tool[i].value.fields = {"stdout", "stderr"}
         /\ tool[i].value.stdout = resp[i].stdout
         /\ tool[i].value.stderr = resp[i].stderr
    /\ (Finished(i) /\ code[i] = <<LogMul(15, 37)>>) =>
         /\ tool[i].kind = "return"
         /\ tool[i].value.stdout = <<"5", "5", "5">>
         /\ tool[i].value.stderr = <<>>

C20_Witness ==
  \E i \in Inv, j \in Inv :
    /\ Finished(i) /\ code[i] = <<LogMul(15, 37)>> /\ tool[i].kind = "return"
    /\ overlapped[i]
    /\ resp[j].status = 200 /\ resp[j].stderr # <<>> /\ resp[j].stdout # <<>>

\* Request r has been answered and its handler has ended.
Answered(r) == gpc[r] = "done"

\* The messages of a sequence that the run of request r added, in order.
Own(messages, r) ==
  LET ByR(m) == m.by = r IN SelectSeq(messages, ByR)

\* C13: a POST /generate request whose prompt is missing or empty is
\* answered with status 400 and body {error: 'Prompt is required'};
\* agent.invoke is not called for it and no thread's history changes.
C13_PromptRequired ==
  [][\A r \in Req :
       (gpc[r] = "idle" /\ gpc'[r] # "idle" /\ Falsy(gbody'[r].prompt)) =>
         /\ Answered(r)'
         /\ gsent'[r] = 1
         /\ gresp'[r].status = 400
         /\ gresp'[r].fields = {"error"}
         /\ gresp'[r].error = <<"Prompt is required">>
         /\ ~invoked'[r]
         /\ store' = store]_vars

C13_Witness ==
  \E r \in Req, q \in Req :
    /\ Answered(r) /\ gbody[r].prompt = Str(<<>>) /\ gresp[r].status = 400
    /\ Answered(q) /\ gbody[q].prompt = Undefined /\ gresp[q].status = 400
    /\ store[<<"default">>] # <<>>

\* The response has one of the two shapes: {content} with a 2xx status or
\* {error} with another status.
ContentOrError(response) ==
  \/ response.fields = {"content"} /\ ResponseOk(response.status)
  \/ /\ response.fields = {"error"}
     /\ response.status # 0
     /\ ~ResponseOk(response.status)

\* C14: agent.invoke returning or throwing, every POST /generate request
\* gets exactly one response, {content} with a 2xx status or {error} with a
\* non-2xx status; none gets two, and none whose handler has ended gets none.
C14_ExactlyOneResponse ==
  \A r \in Req :
    /\ gsent[r] <= 1
    /\ Answered(r) => gsent[r] = 1 /\ ContentOrError(gresp[r])
    /\ ~Answered(r) => gsent[r] = 0

C14_Witness ==
  \E r \in Req, q \in Req, p \in Req :
    /\ Answered(r) /\ gended[r] = "final" /\ gresp[r].fields = {"content"}
    /\ Answered(q) /\ gended[q] = "failed" /\ gresp[q].status = 500
    /\ Answered(p) /\ ~invoked[p] /\ gresp[p].status = 400

\* The tool calls dispatched in the run of request r.
Dispatches(r) ==
  Cardinality({k \in DOMAIN gstate[r] :
                 gstate[r][k].role = "tool" /\ gstate[r][k].by = r})

\* C15: when the model keeps requesting tools, the loop of one request stops
\* after at most the cap of dispatch steps, and the request completes with a
\* final answer (a {content} response) that states the limit was reached.
C15_LimitYieldsFinalAnswer ==
  \A r \in Req :
    /\ Dispatches(r) <= RecursionLimit
    /\ gended[r] = "limit" =>
         /\ gresp[r].fields = {"content"}
         /\ ResponseOk(gresp[r].status)
         /\ Includes(gresp[r].content, <<"limit">>)

\* C16: when the reasoning service fails during a chat request, the request
\* completes with a {content} response describing the failure and not with
\* an error response.
C16_OracleFailureRecovered ==
  \A r \in Req :
    gended[r] = "failed" =>
      /\ gresp[r].fields = {"content"}
      /\ ResponseOk(gresp[r].status)

\* The requests that called agent.invoke for thread t.
OnThread(t) == {r \in Req : invoked[r] /\ ThreadOf(gbody[r]) = t}

\* C17: once the chat requests of one thread_id have ended, concurrent or
\* not, the thread's history holds the user message and the final answer of
\* each request that got its answer exactly once, its own messages in order.
C17_NoEntryLost ==
  \A t \in ThreadKeys :
    (\A r \in OnThread(t) : Answered(r)) =>
      \A r \in OnThread(t) :
        gended[r] = "final" => Own(store[t], r) = Own(gstate[r], r)

\* C18: a chat request that starts after an earlier request on the same
\* thread_id has completed is answered from a history that holds all the
\* messages of the earlier request, in order, followed by its user message.
C18_HistoryOnlyGrows ==
  \A r \in Req :
    invoked[r] =>
      /\ gseen[r][Len(gseen[r])] = UserMessage(r, gbody[r].prompt.s)
      /\ \A q \in gprior[r] :
           ThreadOf(gbody[q]) = ThreadOf(gbody[r]) =>
             Own(gseen[r], q) = Own(gstate[q], q)

\* C26: a successful /generate response never carries an empty content: it
\* is the content of the last message of the agent's result, or the text
\* 'No response generated' when that content is empty.
C26_ContentNeverEmpty ==
  \A r \in Req :
    (Answered(r) /\ gresp[r].fields = {"content"}) =>
      LET last == gstate[r][Len(gstate[r])].content
      IN /\ gresp[r].content # <<>>
         /\ gresp[r].content =
              IF last = <<>> THEN <<"No response generated">> ELSE last

C26_Witness ==
  \E r \in Req, q \in Req :
    /\ Answered(r) /\ gresp[r].content = <<"No response generated">>
    /\ gstate[r][Len(gstate[r])] = AiMessage(r, <<>>)
    /\ Answered(q) /\ gresp[q].content = <<"answer">>

\* C27: the filter rejects only on its four patterns: code is rejected if
\* and only if its text contains 'process.exit', 'require(', 'import ' or
\* 'eval('; every other code string is passed to eval.
C27_RejectedIffPattern ==
  \A i \in Inv :
    Started(i) =>
      /\ evalReached[i] <=> ~HasDenylisted(Text(code[i]))
      /\ (~evalReached[i] /\ Finished(i)) =>
           ret[i].stderr = <<"Potentially dangerous code detected">>

C27_Witness ==
  \E i \in Inv, j \in Inv :
    /\ Finished(i) /\ code[i] = << Log(<<<<"eval">>>>), Call("dynimport") >>
    /\ evalReached[i]
    /\ Finished(j) /\ code[j] = << Call("import") >> /\ ~evalReached[j]

\* C25: when evalAndCaptureOutput itself rejects, the executor answers 500
\* with the body {stdout: '', stderr: 'Execution error: ' + message}, and the
\* tool handler discards that body: its result carries only 'Error executing
\* code: HTTP error! status: 500'.
C25_RejectionTextDiscarded ==
  \A i \in Inv :
    pc[i] = "rejected" =>
      /\ ret[i].kind = "rejected"
      /\ resp[i].status = 500
      /\ resp[i].fields = {"stdout", "stderr"}
      /\ resp[i].stdout = <<>>
      /\ resp[i].stderr = <<"Execution error: ">> \o ret[i].error
      /\ tool[i].kind = "return"
      /\ tool[i].value.stdout = <<>>
      /\ tool[i].value.stderr =
           <<"Error executing code: ", "HTTP error! status: ", "5", "0", "0">>
      /\ ~Includes(tool[i].value.stderr, ret[i].error)

C25_Witness ==
  \E i \in Inv :
    /\ pc[i] = "rejected"
    /\ writes[i] # <<>>
    /\ resp[i].stderr = <<"Execution error: ">> \o NullMessageError[2]
    /\ tool[i].kind = "return"

\* C21: GET /health of the agent service and of the executor service is
\* answered with the fixed payload {status: 'OK'} in every state of the
\* service, and changes no state: no thread history, no console redirection.
C21_HealthFixedAndPure ==
  [][\A s \in Services :
       probes'[s] # probes[s] =>
         /\ hresp'[s].status = 200
         /\ hresp'[s].body = <<"status", "OK">>
         /\ UNCHANGED <<execVars, agentVars, weatherVars>>]_vars

C21_Witness ==
  \E i \in Inv, r \in Req :
    /\ probes["executor"] = MaxProbes /\ hresp["executor"] = HealthOk
    /\ probes["agent"] = MaxProbes /\ hresp["agent"] = HealthOk
    /\ InFlight(i) /\ consoleLog = i
    /\ gpc[r] = "model" /\ store[ThreadOf(gbody[r])] # <<>>

\* The session that sent the message of a thread's history.
SenderOf(m) == owner[m.by]

\* C22: two client sessions whose threadId values differ are served from
\* different server threads: each request is processed under its session's
\* own thread id, and no message sent by one session is part of the history
\* used to answer the other.
C22_SessionsKeptApart ==
  \A r \in Req :
    (owner[r] # 0 /\ invoked[r]) =>
      /\ ThreadOf(gbody[r]) = NumberText(ThreadIdOf(owner[r]))
      /\ \A k \in DOMAIN gstate[r] :
           ThreadIdOf(SenderOf(gstate[r][k])) = ThreadIdOf(owner[r])

\* The chat requests session s has sent, in the order sent.
SentBy(s) ==
  LET IsOf(r) == owner[r] = s
  IN SelectSeq([r \in Req |-> r], IsOf)

\* The assistant message the claim owes the settled request r.
ReplyOwed(r) ==
  [role |-> "assistant",
   content |->
     IF outcome[r] = "failed" THEN <<"Error: ", "Failed to fetch">>
     ELSE IF gresp[r].status \in 200..299 THEN gresp[r].content
     ELSE <<"Error: ", "HTTP error! status: ">> \o NumberText(gresp[r].status)]

\* C23: every sendMessage call that passes its guard appends exactly one
\* user message and later exactly one assistant message, the reply content
\* or 'Error: ' and the failure message when the request fails or the status
\* is not 2xx; isLoading is false again once the request has settled.
C23_OneReplyPerSend ==
  \A s \in Sessions :
    LET sent == SentBy(s)
        awaited == IF fetching[s] # 0 THEN 1 ELSE 0
    IN /\ Len(cmessages[s]) = 2 * Len(sent) - awaited
       /\ isLoading[s] <=> fetching[s] # 0
       /\ \A k \in 1..Len(sent) :
            /\ cmessages[s][2 * k - 1] =
                 [role |-> "user", content |-> gbody[sent[k]].prompt.s]
            /\ (k < Len(sent) \/ fetching[s] = 0) =>
                 /\ outcome[sent[k]] # ""
                 /\ cmessages[s][2 * k] = ReplyOwed(sent[k])

C23_Witness ==
  \E s \in Sessions :
    /\ Len(cmessages[s]) = 4 /\ ~isLoading[s]
    /\ cmessages[s][2].content = <<"Error: ", "HTTP error! status: ", "5", "0", "0">>
    /\ cmessages[s][4].content = <<"answer">>

\* The chat requests of session s whose fetch is awaited.
Awaited(s) == {r \in Req : owner[r] = s /\ outcome[r] = ""}

\* C24: the client never has more than one chat request in flight: while
\* isLoading is true, and whenever the input is empty or only white space,
\* no step sends a request of the session or appends a user message.
C24_OneRequestInFlight ==
  [][\A s \in Sessions :
       /\ Cardinality(Awaited(s)') <= 1
       /\ (isLoading[s] \/ \A k \in DOMAIN inputValue[s] : IsSpace(inputValue[s][k])) =>
            /\ \A r \in Req : owner'[r] = s => owner[r] = s
            /\ \/ cmessages'[s] = cmessages[s]
               \/ /\ Len(cmessages'[s]) = Len(cmessages[s]) + 1
                  /\ cmessages'[s][Len(cmessages'[s])].role = "assistant"]_vars

C24_Witness ==
  \E s \in Sessions, q \in Sessions :
    /\ isLoading[s] /\ Cardinality(Awaited(s)) = 1
    /\ ~isLoading[q] /\ inputValue[q] = <<SP>> /\ cmessages[q] # <<>>

\* The query, in lower case, has the words san francisco, a space between.
MentionsSanFrancisco(q) ==
  \E k \in 1..(Len(q) - 2) :
    /\ q[k] \in {"San", "SAN", "san"}
    /\ q[k + 1] = SP
    /\ q[k + 2] \in {"Francisco", "francisco"}

\* C19: the weather tool returns "It's 60 degrees and foggy." for a query
\* that contains 'san francisco' in any letter case and "It's 90 degrees and
\* sunny." for any other; the result depends on the query alone.
C19_WeatherByQuery ==
  forecast # <<>> =>
    forecast = IF MentionsSanFrancisco(query)
               THEN <<"It's 60 degrees and foggy.">>
               ELSE <<"It's 90 degrees and sunny.">>

C19_Witness ==
  /\ query = <<"SAN", SP, "Francisco">>
  /\ forecast = <<"It's 60 degrees and foggy.">>

====
